---- MODULE Spec2Model ----
(***************************************************************************)
(* Model of the module registry of brunoga/go-modules (modules.go) and of  *)
(* the module objects it stores (generic-module.go).                       *)
(*                                                                         *)
(* A Go map is a function whose DOMAIN is the set of keys present; a nil   *)
(* map and a missing key both read as the zero value, as in Go.            *)
(*                                                                         *)
(* A module object is addressed by the arguments it was constructed with  *)
(* and its rank among the objects constructed with them; `objects` holds   *)
(* its fields. GenericModule has getters for type, genericId and           *)
(* specificId and no setter, so under Spec they stay as constructed.       *)
(* Each step records in `call` the operation run, its argument, the error  *)
(* it returned and the module hooks it invoked.                            *)
(***************************************************************************)
EXTENDS Integers, Sequences, FiniteSets, TLC

\* ------------------------------------------------------------------ bounds
\* Number of module objects the program constructs.
MaxModules == 3

\* Number of module objects that come to report another identity than the one
\* they were constructed with.
MaxDrifted == 1

\* ------------------------------------------------ the strings modules use
Types == {"sample-module", "dummy-module"}
GenericIds == {"complete-module", "simple-module"}
SpecificIds == {"", "specific"}

\* The arguments NewGenericModule is called with: <<moduleType, genericId, specificId>>.
Identities == Types \X GenericIds \X SpecificIds

\* A module object is <<moduleType, genericId, specificId, n>>: the n-th object
\* constructed with these arguments. Two objects with the same arguments are
\* two different references. The nil Module interface value is the empty tuple.
NilModule == <<>>

\* error values: nil, or the message with its formatted arguments
NilError == <<"nil">>
ColisionError(genericModuleId, specificModuleId) ==
    <<"id colision detected : %q / %q", genericModuleId, specificModuleId>>
NotFoundError == <<"module not found">>
\* errors a module's own Register() hook may return
HookErrors == {<<"register hook failed">>, <<"register hook refused">>}
HookResults == {NilError} \cup HookErrors
MissingParameterError == <<"required parameter text1 is missing">>
NotReadyError == <<"module not ready">>
DuplicateError == <<"generic module can not be duplicated">>

VARIABLES
    heap,                      \* how many module objects were constructed, per identity
    objects,                   \* the fields of each module object constructed
    registeredModulesByType,   \* type -> genericId -> specificId -> Module
    registeredModulesById,     \* genericId -> specificId -> Module
    call,                      \* the last call: operation, argument, result, hooks run
    unregistered,              \* history: the modules UnregisterModule has removed
    configured,                \* history: the modules whose Configure has succeeded
    singleModulesByType,       \* the single-id registry: type -> id -> Module
    singleModulesById,         \* the single-id registry: id -> Module
    singleCall                 \* the last call on the single-id registry

history == <<unregistered, configured>>
single == <<singleModulesByType, singleModulesById, singleCall>>
vars == <<heap, objects, registeredModulesByType, registeredModulesById, call, history,
          single>>

\* ------------------------------------------------------------- Go maps
\* make(map...): an empty map that is not nil
EmptyMap == [k \in {} |-> NilModule]

\* the nil map: what reading a missing key of a map of maps gives
NilMap == [k \in {"<nil map>"} |-> NilModule]

\* the keys a range over m visits (none for a nil map)
Keys(m) == IF m = NilMap THEN {} ELSE DOMAIN m

\* len(m); len of a nil map is 0
Len_(m) == Cardinality(Keys(m))

\* m[k] on a map of maps: the nil map when k is missing or m is nil
MapGet(m, k) == IF k \in Keys(m) THEN m[k] ELSE NilMap

\* m[k] on a map of Modules: the nil Module when k is missing or m is nil
ModuleGet(m, k) == IF k \in Keys(m) THEN m[k] ELSE NilModule

\* _, ok := m[k]
HasKey(m, k) == k \in Keys(m)

\* m[k] = v, on a map that is not nil
MapSet(m, k, v) == [x \in DOMAIN m \cup {k} |-> IF x = k THEN v ELSE m[x]]

\* delete(m, k): a no-op when k is missing or m is nil
MapDelete(m, k) == IF m = NilMap THEN m ELSE [x \in DOMAIN m \ {k} |-> m[x]]

\* ------------------------------------------------------- module objects
NewGenericModuleObject(genericId, specificId, moduleType, n) ==
    <<moduleType, genericId, specificId, n>>

\* &ParameterMap{}
EmptyParameterMap == [k \in {} |-> ""]

\* the GenericModule struct as NewGenericModule fills it (name and version,
\* which nothing reads but their getters, are left out); kind tells which
\* struct embeds it, and text1 and text2 are the fields of CompleteModule
GenericModuleStruct(kind, genericId, specificId, moduleType) ==
    [kind |-> kind, genericId |-> genericId, specificId |-> specificId,
     moduleType |-> moduleType, parameters |-> EmptyParameterMap, ready |-> FALSE,
     text1 |-> "", text2 |-> ""]

\* the parameter maps callers pass to Configure: none of the keys, the optional
\* key alone, what CompleteModule.Parameters() returns, and that with text1
\* filled in as the example does
ParameterMaps ==
    {EmptyParameterMap,
     [k \in {"text2"} |-> "Default text"],
     [k \in {"text1", "text2"} |-> IF k = "text1" THEN "" ELSE "Default text"],
     [k \in {"text1", "text2"} |-> IF k = "text1" THEN "This is text1" ELSE "Default text"]}

\* GenericModule.Configure also setting ready
GenericModuleConfigure_SetsReady(object, parameters) ==
    [object EXCEPT !.parameters = parameters, !.ready = TRUE]

\* the object after GenericModule.Configure: gm.parameters = parameters
GenericModuleConfigure(object, parameters) ==
    [object EXCEPT !.parameters = parameters]

\* CompleteModule.Configure calling SetReady(true) before it looks for text1
CompleteModuleConfigure_ReadyFirst(object, parameters) ==
    IF "text1" \notin DOMAIN parameters
    THEN <<[object EXCEPT !.ready = TRUE], MissingParameterError>>
    ELSE <<[object EXCEPT !.text1 = parameters["text1"],
                          !.text2 = IF "text2" \in DOMAIN parameters
                                    THEN parameters["text2"] ELSE "",
                          !.ready = TRUE],
           NilError>>

\* CompleteModule.Configure: the object after the call, and the error returned.
\* A missing text2 reads as the empty string.
CompleteModuleConfigure(object, parameters) ==
    IF "text1" \notin DOMAIN parameters
    THEN <<object, MissingParameterError>>
    ELSE <<[object EXCEPT !.text1 = parameters["text1"],
                          !.text2 = IF "text2" \in DOMAIN parameters
                                    THEN parameters["text2"] ELSE "",
                          !.ready = TRUE],
           NilError>>

\* GenericModule.Duplicate handing back the receiver without an error
GenericModuleDuplicate_Self(module, specificId) == <<module, NilError>>

\* what GenericModule.Duplicate returns: no module, and an error
GenericModuleDuplicate(module, specificId) == <<NilModule, DuplicateError>>

\* the object after GenericModule.SetReady: gm.ready = ready
GenericModuleSetReady(object, ready) == [object EXCEPT !.ready = ready]

Ready(module) == objects[module].ready

GenericId(module) == objects[module].genericId
SpecificId(module) == objects[module].specificId
Type(module) == objects[module].moduleType

\* the module objects constructed so far
Modules == UNION {{<<i[1], i[2], i[3], n>> : n \in 1..heap[i]} : i \in Identities}

RECURSIVE SumHeap(_)
SumHeap(ids) ==
    IF ids = {} THEN 0
    ELSE LET i == CHOOSE x \in ids : TRUE IN heap[i] + SumHeap(ids \ {i})

\* ------------------------------------------------------------ registry
\* IdColision with the check left out
IdColision_Never(byId, genericModuleId, specificModuleId) == FALSE

\* _, ok := registeredModulesById[genericModuleId][specificModuleId]
IdColision(byId, genericModuleId, specificModuleId) ==
    HasKey(MapGet(byId, genericModuleId), specificModuleId)

\* HookFailed with the hook's error ignored
HookFailed_Ignored(hookRet) == FALSE

\* err := module.Register(); if err != nil { return err }
HookFailed(hookRet) == hookRet # NilError

\* InsertByType keyed by genericId only: the type bucket is shared by all types
InsertByType_OneType(byType, moduleType, genericModuleId, specificModuleId, module) ==
    LET shared == CHOOSE t \in Types : TRUE
        t1 == IF MapGet(byType, shared) = NilMap
              THEN MapSet(byType, shared, EmptyMap)
              ELSE byType
        t2 == IF MapGet(t1[shared], genericModuleId) = NilMap
              THEN MapSet(t1, shared, MapSet(t1[shared], genericModuleId, EmptyMap))
              ELSE t1
    IN  MapSet(t2, shared,
            MapSet(t2[shared], genericModuleId,
                MapSet(t2[shared][genericModuleId], specificModuleId, module)))

\* the by-type index after RegisterModule's insertion
InsertByType(byType, moduleType, genericModuleId, specificModuleId, module) ==
    LET t1 == IF MapGet(byType, moduleType) = NilMap
              THEN MapSet(byType, moduleType, EmptyMap)
              ELSE byType
        t2 == IF MapGet(t1[moduleType], genericModuleId) = NilMap
              THEN MapSet(t1, moduleType, MapSet(t1[moduleType], genericModuleId, EmptyMap))
              ELSE t1
    IN  MapSet(t2, moduleType,
            MapSet(t2[moduleType], genericModuleId,
                MapSet(t2[moduleType][genericModuleId], specificModuleId, module)))

\* InsertById making a fresh genericId bucket on every insertion
InsertById_FreshBucket(byId, genericModuleId, specificModuleId, module) ==
    MapSet(byId, genericModuleId, MapSet(EmptyMap, specificModuleId, module))

\* the by-id index after RegisterModule's insertion
InsertById(byId, genericModuleId, specificModuleId, module) ==
    LET i1 == IF MapGet(byId, genericModuleId) = NilMap
              THEN MapSet(byId, genericModuleId, EmptyMap)
              ELSE byId
    IN  MapSet(i1, genericModuleId, MapSet(i1[genericModuleId], specificModuleId, module))

\* the module is a value of one of the two indices
Held(byType, byId, module) ==
    \/ \E t \in Keys(byType) : \E g \in Keys(byType[t]) :
            \E s \in Keys(byType[t][g]) : byType[t][g][s] = module
    \/ \E g \in Keys(byId) : \E s \in Keys(byId[g]) : byId[g][s] = module

\* RegisterModule inserting before it invokes the hook
IndicesAtHook_Inserted(byType, byId, moduleType, genericModuleId, specificModuleId, module) ==
    <<InsertByType(byType, moduleType, genericModuleId, specificModuleId, module),
      InsertById(byId, genericModuleId, specificModuleId, module)>>

\* the two indices at the moment RegisterModule invokes module.Register():
\* after the collision check, which writes nothing, and before the insertion
IndicesAtHook(byType, byId, moduleType, genericModuleId, specificModuleId, module) ==
    <<byType, byId>>

\* FoundIds matching by specific id instead of by reference
FoundIds_ById(byType, moduleType, genericModuleId, module) ==
    LET typeModuleMap == MapGet(MapGet(byType, moduleType), genericModuleId)
    IN  {id \in Keys(typeModuleMap) : id = SpecificId(module)}

\* the keys of the scanned bucket whose value is the module itself (m == module)
FoundIds(byType, moduleType, genericModuleId, module) ==
    LET typeModuleMap == MapGet(MapGet(byType, moduleType), genericModuleId)
    IN  {id \in Keys(typeModuleMap) : typeModuleMap[id] = module}

\* RemoveByType dropping the whole genericId bucket the module was found in
RemoveByType_WholeBucket(byType, moduleType, genericModuleId, id) ==
    LET t1 == MapSet(byType, moduleType,
                  MapDelete(byType[moduleType], genericModuleId))
    IN  IF Len_(MapGet(t1, moduleType)) = 0 THEN MapDelete(t1, moduleType) ELSE t1

\* RemoveByType leaving the emptied buckets in the index
RemoveByType_NoPrune(byType, moduleType, genericModuleId, id) ==
    MapSet(byType, moduleType,
        MapSet(byType[moduleType], genericModuleId,
            MapDelete(byType[moduleType][genericModuleId], id)))

\* the by-type index after UnregisterModule found the module under key id
RemoveByType(byType, moduleType, genericModuleId, id) ==
    LET t1 == MapSet(byType, moduleType,
                  MapSet(byType[moduleType], genericModuleId,
                      MapDelete(byType[moduleType][genericModuleId], id)))
        t2 == IF Len_(MapGet(MapGet(t1, moduleType), genericModuleId)) = 0
              THEN MapSet(t1, moduleType, MapDelete(t1[moduleType], genericModuleId))
              ELSE t1
    IN  IF Len_(MapGet(t2, moduleType)) = 0 THEN MapDelete(t2, moduleType) ELSE t2

\* RemoveById with the by-id removal forgotten
RemoveById_Forgotten(byId, genericModuleId, specificModuleId) == byId

\* the by-id index after UnregisterModule's removal
RemoveById(byId, genericModuleId, specificModuleId) ==
    LET i1 == IF MapGet(byId, genericModuleId) = NilMap
              THEN byId
              ELSE MapSet(byId, genericModuleId,
                       MapDelete(byId[genericModuleId], specificModuleId))
    IN  IF Len_(MapGet(i1, genericModuleId)) = 0 THEN MapDelete(i1, genericModuleId) ELSE i1

\* ------------------------------------------------------------- queries
GetModulesByType(moduleType) == MapGet(registeredModulesByType, moduleType)

RECURSIVE SumLen(_, _)
SumLen(fullModuleMap, keys) ==
    IF keys = {} THEN 0
    ELSE LET k == CHOOSE x \in keys : TRUE
         IN  Len_(fullModuleMap[k]) + SumLen(fullModuleMap, keys \ {k})

\* countFullModuleMap counting the genericId buckets instead of their modules
countFullModuleMap_Buckets(fullModuleMap) == Len_(fullModuleMap)

countFullModuleMap(fullModuleMap) == SumLen(fullModuleMap, Keys(fullModuleMap))

GetModuleCountByType(moduleType) == countFullModuleMap(GetModulesByType(moduleType))

GetModulesByGenericId(genericModuleId) == MapGet(registeredModulesById, genericModuleId)

GetModuleCountByGenericId(genericModuleId) == Len_(GetModulesByGenericId(genericModuleId))

\* GetModuleById falling back, on a miss, to a module of the genericId bucket
GetModuleById_Fallback(genericModuleId, specificModuleId) ==
    LET bucket == MapGet(registeredModulesById, genericModuleId)
    IN  IF HasKey(bucket, specificModuleId) THEN bucket[specificModuleId]
        ELSE IF Keys(bucket) = {} THEN NilModule
        ELSE bucket[CHOOSE k \in Keys(bucket) : TRUE]

GetModuleById(genericModuleId, specificModuleId) ==
    ModuleGet(MapGet(registeredModulesById, genericModuleId), specificModuleId)

\* GetDefaultModuleByGenericId taking whichever module the bucket holds first
GetDefaultModuleByGenericId_Any(genericModuleId) ==
    LET bucket == MapGet(registeredModulesById, genericModuleId)
    IN  IF Keys(bucket) = {} THEN NilModule
        ELSE bucket[CHOOSE k \in Keys(bucket) : TRUE]

GetDefaultModuleByGenericId(genericModuleId) ==
    ModuleGet(MapGet(registeredModulesById, genericModuleId), "")

GetAllModules == registeredModulesById

GetAllModulesCount == countFullModuleMap(GetAllModules)

\* ------------------------------------------------------------- actions
Init ==
    /\ heap = [i \in Identities |-> 0]
    /\ objects = [m \in {} |-> 0]
    /\ unregistered = {}
    /\ configured = {}
    /\ registeredModulesByType = EmptyMap
    /\ registeredModulesById = EmptyMap
    /\ call = [op |-> "init", module |-> NilModule, err |-> NilError, hooks |-> <<>>]
    /\ singleModulesByType = EmptyMap
    /\ singleModulesById = EmptyMap
    /\ singleCall = [op |-> "init", module |-> NilModule, err |-> NilError,
                     hooks |-> <<>>]

\* A program constructs a module object (it is not registered yet).
NewGenericModule(genericId, specificId, moduleType) ==
    /\ SumHeap(Identities) < MaxModules
    /\ LET i == <<moduleType, genericId, specificId>>
           module == NewGenericModuleObject(genericId, specificId, moduleType, heap[i] + 1)
       IN
        /\ heap' = [heap EXCEPT ![i] = @ + 1]
        /\ objects' = MapSet(objects, module,
                        GenericModuleStruct("GenericModule", genericId, specificId, moduleType))
        /\ call' = [op |-> "NewGenericModule", module |-> module,
                    err |-> NilError, hooks |-> <<>>]
    /\ UNCHANGED <<registeredModulesByType, registeredModulesById>>

\* RegisterModule(module); hookRet is what the module's own Register() returns
\* when the call gets as far as invoking it, and held whether an index holds
\* the module at that moment.
RegisterModule(module) ==
    LET genericModuleId == GenericId(module)
        specificModuleId == SpecificId(module)
    IN  /\ UNCHANGED <<heap, objects>>
        /\ IF IdColision(registeredModulesById, genericModuleId, specificModuleId)
           THEN /\ call' = [op |-> "RegisterModule", module |-> module,
                            err |-> ColisionError(genericModuleId, specificModuleId),
                            hooks |-> <<>>]
                /\ UNCHANGED <<registeredModulesByType, registeredModulesById>>
           ELSE \E hookRet \in HookResults :
                LET atHook == IndicesAtHook(registeredModulesByType, registeredModulesById,
                                            Type(module), genericModuleId,
                                            specificModuleId, module)
                    hook == [hook |-> "Register", module |-> module, ret |-> hookRet,
                             held |-> Held(atHook[1], atHook[2], module)] IN
                IF HookFailed(hookRet)
                THEN /\ call' = [op |-> "RegisterModule", module |-> module,
                                 err |-> hookRet, hooks |-> <<hook>>]
                     /\ UNCHANGED <<registeredModulesByType, registeredModulesById>>
                ELSE
                /\ registeredModulesByType' =
                        InsertByType(registeredModulesByType, Type(module),
                                     genericModuleId, specificModuleId, module)
                /\ registeredModulesById' =
                        InsertById(registeredModulesById,
                                   genericModuleId, specificModuleId, module)
                /\ call' = [op |-> "RegisterModule", module |-> module,
                            err |-> NilError, hooks |-> <<hook>>]

\* UnregisterModule(module). The range over the bucket visits its keys in any
\* order and stops at the first key holding the module.
UnregisterModule(module) ==
    LET moduleType == Type(module)
        genericModuleId == GenericId(module)
        specificModuleId == SpecificId(module)
        found == FoundIds(registeredModulesByType, moduleType, genericModuleId, module)
    IN  /\ UNCHANGED <<heap, objects>>
        /\ IF found = {}
           THEN /\ call' = [op |-> "UnregisterModule", module |-> module,
                            err |-> NotFoundError, hooks |-> <<>>]
                /\ UNCHANGED <<registeredModulesByType, registeredModulesById>>
           ELSE \E id \in found :
                /\ registeredModulesByType' =
                        RemoveByType(registeredModulesByType, moduleType, genericModuleId, id)
                /\ registeredModulesById' =
                        RemoveById(registeredModulesById, genericModuleId, specificModuleId)
                /\ call' = [op |-> "UnregisterModule", module |-> module,
                            err |-> NilError, hooks |-> <<>>]

Next ==
    \/ \E g \in GenericIds, s \in SpecificIds, t \in Types :
            NewGenericModule(g, s, t) /\ UNCHANGED <<history, single>>
    \/ \E module \in Modules : RegisterModule(module) /\ UNCHANGED <<history, single>>
    \/ \E module \in Modules : UnregisterModule(module) /\ UNCHANGED <<history, single>>

Spec == Init /\ [][Next]_vars

\* module.Configure(parameters): CompleteModule overrides the method of the
\* GenericModule it embeds
Configure(module, parameters) ==
    LET after == IF objects[module].kind = "CompleteModule"
                 THEN CompleteModuleConfigure(objects[module], parameters)
                 ELSE <<GenericModuleConfigure(objects[module], parameters), NilError>>
    IN  /\ objects' = [objects EXCEPT ![module] = after[1]]
        /\ call' = [op |-> "Configure", module |-> module, err |-> after[2],
                    hooks |-> <<>>, args |-> parameters]
        /\ UNCHANGED <<heap, registeredModulesByType, registeredModulesById>>

\* SpecQuery, SpecHistory and SpecDuplicate construct the modules of one
\* genericId, of both types and both specificIds; the other genericId is one
\* no module ever has.
ConstructedGenericIds == {"complete-module"}

\* module.Duplicate(specificId): neither GenericModule nor the example's
\* modules that embed it construct or register anything
Duplicate(module, specificId) ==
    LET ret == GenericModuleDuplicate(module, specificId)
    IN  /\ call' = [op |-> "Duplicate", module |-> module, err |-> ret[2],
                    hooks |-> <<>>, args |-> specificId, result |-> ret[1]]
        /\ UNCHANGED <<heap, objects, registeredModulesByType, registeredModulesById>>

\* The registry's operations together with Duplicate calls
NextDuplicate ==
    \/ \E moduleType \in Types, genericId \in ConstructedGenericIds,
          specificId \in SpecificIds :
            NewGenericModule(genericId, specificId, moduleType) /\ UNCHANGED <<history, single>>
    \/ \E module \in Modules : RegisterModule(module) /\ UNCHANGED <<history, single>>
    \/ \E module \in Modules : UnregisterModule(module) /\ UNCHANGED <<history, single>>
    \/ \E module \in Modules, specificId \in SpecificIds :
            Duplicate(module, specificId) /\ UNCHANGED <<history, single>>

SpecDuplicate == Init /\ [][NextDuplicate]_vars

\* the module reports another identity than the one it was constructed with
Drifted(module) ==
    <<Type(module), GenericId(module), SpecificId(module)>> #
        <<module[1], module[2], module[3]>>

\* Module is an interface: GenericId(), SpecificId() and Type() of an
\* implementation may return, from some moment on, other strings than they did
\* when the module was registered. The registry is not told.
ChangeIdentity(module, genericId, specificId, moduleType) ==
    /\ ~Drifted(module)
    /\ Cardinality({m \in Modules : Drifted(m)}) < MaxDrifted
    /\ <<genericId, specificId, moduleType>> #
            <<GenericId(module), SpecificId(module), Type(module)>>
    /\ objects' = [objects EXCEPT ![module].genericId = genericId,
                                  ![module].specificId = specificId,
                                  ![module].moduleType = moduleType]
    /\ call' = [op |-> "ChangeIdentity", module |-> module, err |-> NilError,
                hooks |-> <<>>]
    /\ UNCHANGED <<heap, registeredModulesByType, registeredModulesById>>

\* The registry's operations on modules whose reported identity changes
NextDrift ==
    \/ \E moduleType \in Types, genericId \in ConstructedGenericIds,
          specificId \in SpecificIds :
            NewGenericModule(genericId, specificId, moduleType) /\ UNCHANGED <<history, single>>
    \/ \E module \in Modules : RegisterModule(module) /\ UNCHANGED <<history, single>>
    \/ \E module \in Modules : UnregisterModule(module) /\ UNCHANGED <<history, single>>
    \/ \E module \in Modules, moduleType \in Types, genericId \in GenericIds,
          specificId \in SpecificIds :
            ChangeIdentity(module, genericId, specificId, moduleType)
            /\ UNCHANGED <<history, single>>

SpecDrift == Init /\ [][NextDrift]_vars

\* The example constructs its CompleteModule: the GenericModule it embeds is
\* complete-module of type sample-module with the empty specificId, and text1
\* and text2 are empty.
NewCompleteModule ==
    /\ SumHeap(Identities) < MaxModules
    /\ LET i == <<"sample-module", "complete-module", "">>
           module == NewGenericModuleObject("complete-module", "", "sample-module",
                                            heap[i] + 1)
       IN
        /\ heap' = [heap EXCEPT ![i] = @ + 1]
        /\ objects' = MapSet(objects, module,
                        GenericModuleStruct("CompleteModule", "complete-module", "",
                                            "sample-module"))
        /\ call' = [op |-> "NewCompleteModule", module |-> module,
                    err |-> NilError, hooks |-> <<>>]
    /\ UNCHANGED <<registeredModulesByType, registeredModulesById>>

\* cm.DoWork(): an error when not ready, else it prints text1 and text2
DoWork(module) ==
    /\ objects[module].kind = "CompleteModule"
    /\ call' = [op |-> "DoWork", module |-> module,
                err |-> IF ~Ready(module) THEN NotReadyError ELSE NilError,
                hooks |-> <<>>,
                output |-> IF ~Ready(module) THEN <<>>
                           ELSE <<objects[module].text1, objects[module].text2>>]
    /\ UNCHANGED <<heap, objects, registeredModulesByType, registeredModulesById>>

\* The example's use of its CompleteModules: Configure and DoWork, in any
\* order and with any of the parameter maps.
NextComplete ==
    \/ NewCompleteModule /\ UNCHANGED <<history, single>>
    \/ \E module \in Modules, parameters \in ParameterMaps :
            /\ Configure(module, parameters)
            /\ configured' = IF call'.err = NilError
                             THEN configured \cup {module}
                             ELSE configured
            /\ UNCHANGED <<unregistered, single>>
    \/ \E module \in Modules : DoWork(module) /\ UNCHANGED <<history, single>>

SpecComplete == Init /\ [][NextComplete]_vars

\* module.SetReady(ready)
SetReady(module, ready) ==
    /\ objects' = [objects EXCEPT ![module] = GenericModuleSetReady(@, ready)]
    /\ call' = [op |-> "SetReady", module |-> module, err |-> NilError, hooks |-> <<>>,
                args |-> ready]
    /\ UNCHANGED <<heap, registeredModulesByType, registeredModulesById>>

\* A program that constructs GenericModules, as the example does for
\* complete-module / specific, and configures them and sets them ready.
NextModule ==
    \/ NewGenericModule("complete-module", "specific", "sample-module")
            /\ UNCHANGED <<history, single>>
    \/ \E module \in Modules, parameters \in ParameterMaps :
            Configure(module, parameters) /\ UNCHANGED <<history, single>>
    \/ \E module \in Modules, ready \in BOOLEAN :
            SetReady(module, ready) /\ UNCHANGED <<history, single>>

SpecModule == Init /\ [][NextModule]_vars

\* A query: it returns result and writes nothing (its body only reads the maps,
\* and reading a Go map, nil or not, inserts nothing).
Query(op, args, result) ==
    /\ call' = [op |-> op, module |-> NilModule, err |-> NilError, hooks |-> <<>>,
                args |-> args, result |-> result]
    /\ UNCHANGED <<heap, objects, registeredModulesByType, registeredModulesById>>

\* The same program, with its callers also running the queries.
NextQuery ==
    \/ \E g \in ConstructedGenericIds, s \in SpecificIds, t \in Types :
            NewGenericModule(g, s, t) /\ UNCHANGED <<history, single>>
    \/ \E module \in Modules : RegisterModule(module) /\ UNCHANGED <<history, single>>
    \/ \E module \in Modules : UnregisterModule(module) /\ UNCHANGED <<history, single>>
    \/ \E t \in Types :
            Query("GetModulesByType", <<t>>, GetModulesByType(t)) /\ UNCHANGED <<history, single>>
    \/ \E t \in Types :
            Query("GetModuleCountByType", <<t>>, GetModuleCountByType(t))
            /\ UNCHANGED <<history, single>>
    \/ \E g \in GenericIds :
            Query("GetModulesByGenericId", <<g>>, GetModulesByGenericId(g))
            /\ UNCHANGED <<history, single>>
    \/ \E g \in GenericIds :
            Query("GetModuleCountByGenericId", <<g>>, GetModuleCountByGenericId(g))
            /\ UNCHANGED <<history, single>>
    \/ \E g \in GenericIds, s \in SpecificIds :
            Query("GetModuleById", <<g, s>>, GetModuleById(g, s)) /\ UNCHANGED <<history, single>>
    \/ \E g \in GenericIds :
            Query("GetDefaultModuleByGenericId", <<g>>, GetDefaultModuleByGenericId(g))
            /\ UNCHANGED <<history, single>>
    \/ Query("GetAllModules", <<>>, GetAllModules) /\ UNCHANGED <<history, single>>
    \/ Query("GetAllModulesCount", <<>>, GetAllModulesCount) /\ UNCHANGED <<history, single>>

SpecQuery == Init /\ [][NextQuery]_vars

\* The same program, with the history of removals recorded.
NextHistory ==
    \/ \E g \in ConstructedGenericIds, s \in SpecificIds, t \in Types :
            NewGenericModule(g, s, t) /\ UNCHANGED <<history, single>>
    \/ \E module \in Modules : RegisterModule(module) /\ UNCHANGED <<history, single>>
    \/ \E module \in Modules :
            /\ UnregisterModule(module)
            /\ unregistered' = IF call'.err = NilError
                               THEN unregistered \cup {module}
                               ELSE unregistered
            /\ UNCHANGED <<configured, single>>

SpecHistory == Init /\ [][NextHistory]_vars

\* ------------------------------------------------ the single-id registry
\* The registry as it was before modules had a genericId and a specificId: a
\* module has one Id(), and registeredModulesById maps it to the module. A
\* module of the general registry with the empty specificId is taken to the
\* single-id registry with its genericId as Id().
Id(module) == GenericId(module)

SingleColisionError(moduleId) == <<"id colision detected : %q", moduleId>>

\* _, ok := registeredModulesById[moduleId]
SingleIdColision(byId, moduleId) == HasKey(byId, moduleId)

\* the by-type index after the insertion of RegisterModule
SingleInsertByType(byType, moduleType, moduleId, module) ==
    LET t1 == IF MapGet(byType, moduleType) = NilMap
              THEN MapSet(byType, moduleType, EmptyMap)
              ELSE byType
    IN  MapSet(t1, moduleType, MapSet(t1[moduleType], moduleId, module))

\* the keys of the type's bucket whose value is the module itself
SingleFoundIds(byType, moduleType, module) ==
    LET typeModuleList == MapGet(byType, moduleType)
    IN  {id \in Keys(typeModuleList) : typeModuleList[id] = module}

\* the by-type index after UnregisterModule found the module under key id
SingleRemoveByType(byType, moduleType, id) ==
    LET t1 == MapSet(byType, moduleType, MapDelete(byType[moduleType], id))
    IN  IF Len_(MapGet(t1, moduleType)) = 0 THEN MapDelete(t1, moduleType) ELSE t1

\* SingleRemoveById with the removal forgotten
SingleRemoveById_Forgotten(byId, moduleId) == byId

\* delete(registeredModulesById, moduleId)
SingleRemoveById(byId, moduleId) == MapDelete(byId, moduleId)

SingleGetModuleById(moduleId) == ModuleGet(singleModulesById, moduleId)

\* RegisterModule(module) of the single-id registry; hookRet is what the
\* module's Register() returns if the call invokes it
SingleRegisterModule(module, hookRet) ==
    LET moduleId == Id(module)
        hook == [hook |-> "Register", module |-> module, ret |-> hookRet]
    IN  IF SingleIdColision(singleModulesById, moduleId)
        THEN /\ singleCall' = [op |-> "RegisterModule", module |-> module,
                               err |-> SingleColisionError(moduleId), hooks |-> <<>>]
             /\ UNCHANGED <<singleModulesByType, singleModulesById>>
        ELSE IF HookFailed(hookRet)
        THEN /\ singleCall' = [op |-> "RegisterModule", module |-> module,
                               err |-> hookRet, hooks |-> <<hook>>]
             /\ UNCHANGED <<singleModulesByType, singleModulesById>>
        ELSE /\ singleModulesByType' =
                    SingleInsertByType(singleModulesByType, Type(module), moduleId, module)
             /\ singleModulesById' = MapSet(singleModulesById, moduleId, module)
             /\ singleCall' = [op |-> "RegisterModule", module |-> module,
                               err |-> NilError, hooks |-> <<hook>>]

\* UnregisterModule(module) of the single-id registry
SingleUnregisterModule(module) ==
    LET moduleType == Type(module)
        found == SingleFoundIds(singleModulesByType, moduleType, module)
    IN  IF found = {}
        THEN /\ singleCall' = [op |-> "UnregisterModule", module |-> module,
                               err |-> NotFoundError, hooks |-> <<>>]
             /\ UNCHANGED <<singleModulesByType, singleModulesById>>
        ELSE \E id \in found :
             /\ singleModulesByType' =
                    SingleRemoveByType(singleModulesByType, moduleType, id)
             /\ singleModulesById' = SingleRemoveById(singleModulesById, Id(module))
             /\ singleCall' = [op |-> "UnregisterModule", module |-> module,
                               err |-> NilError, hooks |-> <<>>]

\* One sequence of calls run on both registries, on modules with the empty
\* specificId. A module's Register() returns the same in the two runs.
NextSingle ==
    \/ \E moduleType \in Types, genericId \in GenericIds :
            NewGenericModule(genericId, "", moduleType) /\ UNCHANGED <<history, single>>
    \/ \E module \in Modules :
            /\ RegisterModule(module)
            /\ \E hookRet \in HookResults :
                /\ call'.hooks # <<>> => hookRet = call'.hooks[1].ret
                /\ call'.hooks = <<>> => hookRet = NilError
                /\ SingleRegisterModule(module, hookRet)
            /\ UNCHANGED history
    \/ \E module \in Modules :
            /\ UnregisterModule(module)
            /\ SingleUnregisterModule(module)
            /\ UNCHANGED history

SpecSingle == Init /\ [][NextSingle]_vars

TypeOK ==
    /\ heap \in [Identities -> 0..MaxModules]
    /\ DOMAIN objects = Modules
    /\ Keys(registeredModulesByType) \subseteq Types
    /\ Keys(registeredModulesById) \subseteq GenericIds

\* ------------------------------------------------- what the claims speak of
\* the modules some index holds, and where the indices hold them
InByType(module) ==
    {<<t, g, s>> \in Types \X GenericIds \X SpecificIds :
        ModuleGet(MapGet(MapGet(registeredModulesByType, t), g), s) = module}
InById(module) ==
    {<<g, s>> \in GenericIds \X SpecificIds :
        ModuleGet(MapGet(registeredModulesById, g), s) = module}
RegisteredModules == {m \in Modules : InByType(m) # {} \/ InById(m) # {}}

\* the last call was op(module)
Called(op, module) == call.op = op /\ call.module = module
\* the Register() hook ran in the last call and returned an error
HookReturnedError == Len(call.hooks) = 1 /\ call.hooks[1].ret # NilError

\* C1: RegisterModule(M) with M's (genericId, specificId) already in the by-id
\* index returns the collision error for that pair, whatever the types of the
\* two modules, and changes neither index nor any count; the pair stays held
\* by exactly one module.
C1_ColisionRejected ==
    [][\A m \in Modules :
        (Called("RegisterModule", m)'
            /\ HasKey(MapGet(registeredModulesById, GenericId(m)), SpecificId(m)))
        => /\ call'.err = ColisionError(GenericId(m), SpecificId(m))
           /\ UNCHANGED <<registeredModulesByType, registeredModulesById>>
           /\ GetAllModulesCount' = GetAllModulesCount
           /\ \A t \in Types : GetModuleCountByType(t)' = GetModuleCountByType(t)
           /\ \A g \in GenericIds :
                GetModuleCountByGenericId(g)' = GetModuleCountByGenericId(g)
           /\ Cardinality({x \in RegisteredModules' :
                <<GenericId(x), SpecificId(x)>> = <<GenericId(m), SpecificId(m)>>}) = 1
    ]_vars

\* C1 witness: a registration was rejected as a collision with a registered
\* module of another type.
C1_Witness ==
    /\ call.op = "RegisterModule"
    /\ call.err = ColisionError(GenericId(call.module), SpecificId(call.module))
    /\ LET holder == GetModuleById(GenericId(call.module), SpecificId(call.module))
       IN  holder # NilModule /\ holder # call.module
            /\ Type(holder) # Type(call.module)
    /\ GetAllModulesCount >= 2

\* C2: the two indices hold the same entries: a module is at by-id[g][s]
\* exactly when it is at by-type[t][g][s] for exactly one type t, its own.
C2_LockStep ==
    \A m \in Modules :
        /\ InById(m) = {<<x[2], x[3]>> : x \in InByType(m)}
        /\ \A x \in InByType(m) : x[1] = Type(m)
        /\ Cardinality(InByType(m)) = Cardinality(InById(m))
        /\ InById(m) \subseteq {<<GenericId(m), SpecificId(m)>>}

\* C2 witness: after a successful removal the registry still holds modules
\* of two types.
C2_Witness ==
    /\ call.op = "UnregisterModule" /\ call.err = NilError
    /\ Len_(registeredModulesByType) = 2
    /\ GetAllModulesCount >= 2

\* C3: right after a successful RegisterModule(M) both lookup paths give M.
C3_RetrievableBothPaths ==
    \A m \in Modules :
        (Called("RegisterModule", m) /\ call.err = NilError)
        => /\ GetModuleById(GenericId(m), SpecificId(m)) = m
           /\ ModuleGet(MapGet(GetModulesByType(Type(m)), GenericId(m)), SpecificId(m)) = m

\* C3 witness: a registration succeeded into a type and genericId bucket that
\* already held another module.
C3_Witness ==
    /\ call.op = "RegisterModule" /\ call.err = NilError
    /\ Len_(MapGet(GetModulesByType(Type(call.module)), GenericId(call.module))) = 2

\* C4: RegisterModule of a module whose pair no registered module holds, and
\* whose Register() hook succeeds, succeeds; afterwards GetModuleById gives it
\* and still gives every module registered before.
C4_DistinctPairsAllRetrievable ==
    [][\A m \in Modules :
        (/\ Called("RegisterModule", m)'
         /\ ~HookReturnedError'
         /\ \A x \in RegisteredModules :
                <<GenericId(x), SpecificId(x)>> # <<GenericId(m), SpecificId(m)>>)
        => /\ call'.err = NilError
           /\ \A x \in RegisteredModules \cup {m} :
                GetModuleById(GenericId(x), SpecificId(x))' = x
    ]_vars

\* C4 witness: three modules with pairwise distinct pairs are all registered,
\* two of them sharing a genericId.
C4_Witness ==
    /\ call.op = "RegisterModule" /\ call.err = NilError
    /\ Cardinality(RegisteredModules) = 3
    /\ \E x, y \in RegisteredModules : x # y /\ GenericId(x) = GenericId(y)
    /\ \A x \in RegisteredModules :
            GetModuleById(GenericId(x), SpecificId(x)) = x

\* C5: a successful RegisterModule(M) raises GetAllModulesCount() by exactly 1
\* and GetModuleCountByType(M.Type()) by exactly 1.
C5_CountsGrowByOne ==
    [][\A m \in Modules :
        (Called("RegisterModule", m)' /\ call'.err = NilError)
        => /\ GetAllModulesCount' = GetAllModulesCount + 1
           /\ GetModuleCountByType(Type(m))' = GetModuleCountByType(Type(m)) + 1
    ]_vars

\* C5 witness: a registration succeeded and made the count of its type 2.
C5_Witness ==
    /\ call.op = "RegisterModule" /\ call.err = NilError
    /\ GetModuleCountByType(Type(call.module)) = 2
    /\ GetAllModulesCount = 3

\* C6: a successful UnregisterModule(M) leaves M in neither index, so that
\* GetModuleById(g, s) is nil and GetModulesByType(t) has no entry for M, and
\* lowers GetAllModulesCount() by exactly 1.
C6_UnregisterRemoves ==
    [][\A m \in Modules :
        (Called("UnregisterModule", m)' /\ call'.err = NilError)
        => /\ m \in RegisteredModules
           /\ GetModuleById(GenericId(m), SpecificId(m))' = NilModule
           /\ ModuleGet(MapGet(GetModulesByType(Type(m)), GenericId(m)),
                        SpecificId(m))' = NilModule
           /\ m \notin RegisteredModules'
           /\ GetAllModulesCount' = GetAllModulesCount - 1
    ]_vars

\* C6 witness: a module was unregistered out of a bucket that keeps another.
C6_Witness ==
    /\ call.op = "UnregisterModule" /\ call.err = NilError
    /\ GetModuleById(GenericId(call.module), SpecificId(call.module)) = NilModule
    /\ GetModuleCountByGenericId(GenericId(call.module)) = 1
    /\ GetAllModulesCount = 2

\* C7: UnregisterModule(M) of a module no index holds returns "module not
\* found" and changes neither index nor any count.
C7_UnregisterUnknown ==
    [][\A m \in Modules :
        (Called("UnregisterModule", m)' /\ m \notin RegisteredModules)
        => /\ call'.err = NotFoundError
           /\ UNCHANGED <<registeredModulesByType, registeredModulesById>>
           /\ GetAllModulesCount' = GetAllModulesCount
           /\ \A t \in Types : GetModuleCountByType(t)' = GetModuleCountByType(t)
           /\ \A g \in GenericIds :
                GetModuleCountByGenericId(g)' = GetModuleCountByGenericId(g)
    ]_vars

\* C7 witness: "module not found" for a module while the bucket of its type
\* and genericId holds another module; and for a module on the empty registry.
C7_Witness ==
    /\ call.op = "UnregisterModule" /\ call.err = NotFoundError
    /\ Len_(MapGet(GetModulesByType(Type(call.module)), GenericId(call.module))) >= 1
    /\ call.module \notin RegisteredModules

C7_WitnessEmpty ==
    /\ call.op = "UnregisterModule" /\ call.err = NotFoundError
    /\ GetAllModulesCount = 0 /\ Len_(registeredModulesByType) = 0

\* C8: when the module's Register() hook returns an error, RegisterModule
\* returns that very error and both indices, buckets included, stay as they
\* were.
C8_HookErrorPropagated ==
    [][\A m \in Modules :
        (Called("RegisterModule", m)' /\ HookReturnedError')
        => /\ call'.err = call'.hooks[1].ret
           /\ call'.err \in HookErrors
           /\ UNCHANGED <<registeredModulesByType, registeredModulesById>>
           /\ m \notin RegisteredModules'
    ]_vars

\* C8 witness: the hook of a module whose type and genericId have no bucket
\* failed, and there is still no bucket.
C8_Witness ==
    /\ call.op = "RegisterModule" /\ HookReturnedError
    /\ call.err = call.hooks[1].ret
    /\ MapGet(registeredModulesById, GenericId(call.module)) = NilMap
    /\ GetModulesByType(Type(call.module)) = NilMap
    /\ GetAllModulesCount >= 1

\* C9: a successful UnregisterModule(M) has called M.Unregister() exactly once.
C9_UnregisterHookCalled ==
    (call.op = "UnregisterModule" /\ call.err = NilError)
    => /\ Len(call.hooks) = 1
       /\ call.hooks[1].hook = "Unregister"
       /\ call.hooks[1].module = call.module

\* C10: GetDefaultModuleByGenericId(g) is GetModuleById(g, ""): the registered
\* module of genericId g with the empty specificId, or nil when there is none;
\* registering or unregistering a module of non-empty specificId leaves it as
\* it was. With exactly A = (sample-module, complete-module, "") and
\* B = (sample-module, complete-module, "specific") registered, the default is
\* A, GetModuleById(complete-module, specific) is B and the count of
\* sample-module is 2.
C10_DefaultState ==
    /\ \A g \in GenericIds :
        LET d == GetDefaultModuleByGenericId(g)
            defaults == {m \in RegisteredModules : GenericId(m) = g /\ SpecificId(m) = ""}
        IN  /\ d = GetModuleById(g, "")
            /\ d # NilModule => defaults = {d}
            /\ d = NilModule => defaults = {}
    /\ \A a, b \in Modules :
        (/\ RegisteredModules = {a, b}
         /\ <<Type(a), GenericId(a), SpecificId(a)>> = <<"sample-module", "complete-module", "">>
         /\ <<Type(b), GenericId(b), SpecificId(b)>> =
                <<"sample-module", "complete-module", "specific">>)
        => /\ GetDefaultModuleByGenericId("complete-module") = a
           /\ GetModuleById("complete-module", "specific") = b
           /\ GetModuleCountByType("sample-module") = 2

C10_DefaultStep ==
    \A m \in Modules :
        (call'.op \in {"RegisterModule", "UnregisterModule"} /\ call'.module = m
            /\ SpecificId(m) # "")
        => \A g \in GenericIds :
            GetDefaultModuleByGenericId(g)' = GetDefaultModuleByGenericId(g)

C10_Default == []C10_DefaultState /\ [][C10_DefaultStep]_vars

\* C10 witness: the example's A and B are registered, B last.
C10_Witness ==
    /\ call.op = "RegisterModule" /\ call.err = NilError
    /\ <<Type(call.module), GenericId(call.module), SpecificId(call.module)>> =
            <<"sample-module", "complete-module", "specific">>
    /\ GetDefaultModuleByGenericId("complete-module") # NilModule
    /\ GetDefaultModuleByGenericId("complete-module") # call.module
    /\ GetModuleById("complete-module", "specific") = call.module
    /\ GetModuleCountByType("sample-module") = 2

\* C11: once a module has been registered and unregistered, RegisterModule of
\* it, or of another module with its (genericId, specificId), succeeds like a
\* first registration whenever no registered module holds the pair; and a
\* module is either in no index or in both at its own place.
C11_TwoStates ==
    \A m \in Modules :
        \/ InByType(m) = {} /\ InById(m) = {}
        \/ /\ InByType(m) = {<<Type(m), GenericId(m), SpecificId(m)>>}
           /\ InById(m) = {<<GenericId(m), SpecificId(m)>>}

C11_ReRegisterStep ==
    \A m \in Modules :
        (/\ Called("RegisterModule", m)'
         /\ ~HookReturnedError'
         /\ \E x \in unregistered :
                <<GenericId(x), SpecificId(x)>> = <<GenericId(m), SpecificId(m)>>
         /\ \A x \in RegisteredModules :
                <<GenericId(x), SpecificId(x)>> # <<GenericId(m), SpecificId(m)>>)
        => /\ call'.err = NilError
           /\ Len(call'.hooks) = 1
           /\ GetModuleById(GenericId(m), SpecificId(m))' = m
           /\ InByType(m)' = {<<Type(m), GenericId(m), SpecificId(m)>>}

C11_ReRegistration == []C11_TwoStates /\ [][C11_ReRegisterStep]_vars

\* C11 witness: a module removed earlier is registered again, after another
\* module with the same pair was registered and removed in between.
C11_Witness ==
    /\ call.op = "RegisterModule" /\ call.err = NilError
    /\ call.module \in unregistered
    /\ \E x \in unregistered :
        /\ x # call.module
        /\ <<GenericId(x), SpecificId(x)>> =
                <<GenericId(call.module), SpecificId(call.module)>>
    /\ GetModuleById(GenericId(call.module), SpecificId(call.module)) = call.module

\* C12: every query leaves both indices as they were, buckets included, and
\* on a type, genericId or pair no registered module has it returns the nil
\* map, the nil Module or 0; on the others, what is registered.
QueryOps ==
    {"GetModulesByType", "GetModuleCountByType", "GetModulesByGenericId",
     "GetModuleCountByGenericId", "GetModuleById", "GetDefaultModuleByGenericId",
     "GetAllModules", "GetAllModulesCount"}

\* the registered modules of a type, of a genericId, of a pair
OfType(t) == {m \in RegisteredModules : Type(m) = t}
OfGenericId(g) == {m \in RegisteredModules : GenericId(m) = g}
OfPair(g, s) == {m \in OfGenericId(g) : SpecificId(m) = s}

C12_Result ==
    LET a == call.args
        r == call.result
    IN  /\ call.op = "GetModulesByType" =>
            /\ OfType(a[1]) = {} => r = NilMap
            /\ \A m \in OfType(a[1]) :
                    ModuleGet(MapGet(r, GenericId(m)), SpecificId(m)) = m
        /\ call.op = "GetModuleCountByType" => r = Cardinality(OfType(a[1]))
        /\ call.op = "GetModulesByGenericId" =>
            /\ OfGenericId(a[1]) = {} => r = NilMap
            /\ \A m \in OfGenericId(a[1]) : ModuleGet(r, SpecificId(m)) = m
        /\ call.op = "GetModuleCountByGenericId" => r = Cardinality(OfGenericId(a[1]))
        /\ call.op = "GetModuleById" =>
            /\ OfPair(a[1], a[2]) = {} => r = NilModule
            /\ \A m \in OfPair(a[1], a[2]) : r = m
        /\ call.op = "GetDefaultModuleByGenericId" =>
            /\ OfPair(a[1], "") = {} => r = NilModule
            /\ \A m \in OfPair(a[1], "") : r = m
        /\ call.op = "GetAllModules" =>
            /\ RegisteredModules = {} => Len_(r) = 0
            /\ \A m \in RegisteredModules :
                    ModuleGet(MapGet(r, GenericId(m)), SpecificId(m)) = m
        /\ call.op = "GetAllModulesCount" => r = Cardinality(RegisteredModules)

C12_QueryStep ==
    call'.op \in QueryOps
    => /\ UNCHANGED <<registeredModulesByType, registeredModulesById, heap, objects>>
       /\ call'.err = NilError
       /\ C12_Result'

C12_QueriesTotalAndPure == [][C12_QueryStep]_vars

\* C12 witness: a lookup by pair missed in a genericId bucket that exists, and
\* left the registry with its one module.
C12_Witness ==
    /\ call.op = "GetModuleById" /\ call.result = NilModule
    /\ GetModulesByGenericId(call.args[1]) # NilMap
    /\ GetModulesByType("dummy-module") = NilMap
    /\ GetAllModulesCount = 1

\* what module.Parameters() returns: the stored map of a GenericModule, a
\* fresh map of the two keys with their defaults of a CompleteModule
Parameters(module) ==
    IF objects[module].kind = "CompleteModule"
    THEN [k \in {"text1", "text2"} |-> IF k = "text1" THEN "" ELSE "Default text"]
    ELSE objects[module].parameters

\* C13: GenericModule.Configure(params) returns nil and stores params, so that
\* Parameters() returns them, and leaves ready alone; a new GenericModule has
\* no parameters and is not ready; Ready() turns true in SetReady(true) only.
C13_Step ==
    \A m \in Modules' :
        /\ Called("Configure", m)' =>
            /\ call'.err = NilError
            /\ Parameters(m)' = call'.args
            /\ Ready(m)' = Ready(m)
        /\ Called("NewGenericModule", m)' =>
            ~Ready(m)' /\ Parameters(m)' = EmptyParameterMap
        /\ (m \in Modules /\ ~Ready(m) /\ Ready(m)') =>
            Called("SetReady", m)' /\ call'.args = TRUE

C13_BaseConfigure == [][C13_Step]_vars

\* C13 witness: a GenericModule was configured with the example's parameters
\* and is still not ready, while another was made ready by SetReady(true).
C13_Witness ==
    /\ call.op = "Configure" /\ call.err = NilError
    /\ ~Ready(call.module)
    /\ "text1" \in DOMAIN Parameters(call.module)
    /\ \E m \in Modules : Ready(m) /\ Parameters(m) = EmptyParameterMap

\* C14: after GenericModule.Configure returns success, Ready() is true.
C14_ConfigureSetsReady ==
    \A m \in Modules :
        (Called("Configure", m) /\ call.err = NilError
            /\ objects[m].kind = "GenericModule")
        => Ready(m)

\* C14, amended: GenericModule.Configure returns success and leaves Ready() as
\* it was before the call, false unless SetReady(true) had set it.
C14_ConfigureKeepsReady ==
    [][\A m \in Modules :
        (Called("Configure", m)' /\ objects[m].kind = "GenericModule")
        => /\ call'.err = NilError
           /\ Ready(m)' <=> Ready(m)
    ]_vars

\* C14 witness: Configure succeeded on a GenericModule that nothing had set
\* ready, and it is not ready.
C14_Witness ==
    /\ call.op = "Configure" /\ call.err = NilError
    /\ objects[call.module].kind = "GenericModule"
    /\ ~Ready(call.module)
    /\ \A m \in Modules : ~Ready(m)

\* C15: for a CompleteModule, Configure without text1 returns the missing
\* parameter error and changes nothing, so a module not ready stays so;
\* Configure with text1 returns nil and makes it ready; DoWork returns "module
\* not ready" as long as no Configure of the module has succeeded and succeeds
\* ever after.
C15_ReadyIffConfigured ==
    \A m \in Modules : Ready(m) <=> m \in configured

C15_Step ==
    \A m \in Modules :
        /\ (Called("Configure", m)' /\ "text1" \notin DOMAIN call'.args) =>
            /\ call'.err = MissingParameterError
            /\ Ready(m)' = Ready(m)
            /\ m \notin configured => ~Ready(m)'
        /\ (Called("Configure", m)' /\ "text1" \in DOMAIN call'.args) =>
            /\ call'.err = NilError
            /\ Ready(m)'
        /\ Called("DoWork", m)' =>
            /\ m \notin configured => call'.err = NotReadyError
            /\ m \in configured => call'.err = NilError

C15_CompleteModule == []C15_ReadyIffConfigured /\ [][C15_Step]_vars

\* C15 witness: DoWork succeeded on a configured module holding the example's
\* text1, while another module, never configured, is not ready.
C15_Witness ==
    /\ call.op = "DoWork" /\ call.err = NilError
    /\ call.output = <<"This is text1", "Default text">>
    /\ \E m \in Modules : m \notin configured /\ ~Ready(m)

\* C16: Duplicate(specificId) of the base implementation returns a nil module
\* and a non-nil error whatever the specificId, constructs no module and leaves
\* both indices of the registry as they were.
C16_DuplicateFails ==
    [][\A m \in Modules :
        Called("Duplicate", m)' =>
            /\ call'.result = NilModule
            /\ call'.err # NilError
            /\ call'.hooks = <<>>
            /\ Modules' = Modules
            /\ registeredModulesByType' = registeredModulesByType
            /\ registeredModulesById' = registeredModulesById
            /\ GetAllModulesCount' = GetAllModulesCount
    ]_vars

\* C16 witness: Duplicate("specific") was called on a registered module whose
\* specificId is empty, and no module with the specificId "specific" exists.
C16_Witness ==
    /\ call.op = "Duplicate" /\ call.args = "specific"
    /\ call.module \in RegisteredModules
    /\ SpecificId(call.module) = ""
    /\ \A m \in Modules : SpecificId(m) = ""

\* C17: after any sequence of RegisterModule and UnregisterModule calls neither
\* index holds an empty container: every type bucket has a genericId bucket,
\* every genericId bucket of either index has a module; so for a type with no
\* registered module GetModulesByType is nil, not an empty map, and
\* GetModuleCountByType is 0.
C17_NoEmptyBuckets ==
    /\ \A t \in Keys(registeredModulesByType) :
        /\ registeredModulesByType[t] # NilMap
        /\ Len_(registeredModulesByType[t]) >= 1
        /\ \A g \in Keys(registeredModulesByType[t]) :
            /\ registeredModulesByType[t][g] # NilMap
            /\ Len_(registeredModulesByType[t][g]) >= 1
    /\ \A g \in Keys(registeredModulesById) :
        /\ registeredModulesById[g] # NilMap
        /\ Len_(registeredModulesById[g]) >= 1
    /\ \A t \in Types :
        {m \in Modules : InByType(m) # {} /\ Type(m) = t} = {} =>
            /\ GetModulesByType(t) = NilMap
            /\ GetModulesByType(t) # EmptyMap
            /\ GetModuleCountByType(t) = 0

\* C17 witness: the last module of its type and of its genericId was just
\* unregistered while a module of the other type and genericId stays.
C17_Witness ==
    /\ call.op = "UnregisterModule" /\ call.err = NilError
    /\ GetModulesByType(Type(call.module)) = NilMap
    /\ GetModulesByGenericId(GenericId(call.module)) = NilMap
    /\ \E m \in RegisteredModules :
        Type(m) # Type(call.module) /\ GenericId(m) # GenericId(call.module)

\* C18: UnregisterModule(M) of a registered module M whose Type(), GenericId()
\* or SpecificId() is no longer what it was registered under returns "module
\* not found" and removes nothing from either index, also when SpecificId()
\* alone has changed.
C18_DriftedNotFound ==
    [][\A m \in Modules :
        (/\ Called("UnregisterModule", m)'
         /\ m \in RegisteredModules
         /\ InByType(m) # {<<Type(m), GenericId(m), SpecificId(m)>>})
        => /\ call'.err = NotFoundError
           /\ UNCHANGED <<registeredModulesByType, registeredModulesById>>
    ]_vars

\* C19: UnregisterModule matches the module itself, not its ids: with M
\* registered and M2 another object reporting the same Type(), GenericId() and
\* SpecificId(), UnregisterModule(M2) returns "module not found" and M stays
\* in both indices, retrievable as before.
C19_MatchByReference ==
    [][\A m, m2 \in Modules :
        (/\ Called("UnregisterModule", m2)'
         /\ m2 # m
         /\ Type(m2) = Type(m)
         /\ GenericId(m2) = GenericId(m)
         /\ SpecificId(m2) = SpecificId(m)
         /\ InByType(m) # {} /\ InById(m) # {})
        => /\ call'.err = NotFoundError
           /\ InByType(m)' = InByType(m)
           /\ InById(m)' = InById(m)
           /\ GetModuleById(GenericId(m), SpecificId(m))' = m
           /\ UNCHANGED <<registeredModulesByType, registeredModulesById>>
    ]_vars

\* C19 witness: "module not found" for a module that is in no index while
\* another object of the same type, genericId and specificId is registered.
C19_Witness ==
    /\ call.op = "UnregisterModule" /\ call.err = NotFoundError
    /\ call.module \notin RegisteredModules
    /\ \E m \in RegisteredModules :
        /\ m # call.module
        /\ Type(m) = Type(call.module)
        /\ GenericId(m) = GenericId(call.module)
        /\ SpecificId(m) = SpecificId(call.module)
        /\ GetModuleById(GenericId(m), SpecificId(m)) = m

\* C20: RegisterModule checks for a collision, then invokes the hook, then
\* inserts: a call rejected as a collision invokes no hook; a call that passes
\* the check invokes the module's Register() exactly once, at a moment when
\* neither index holds the module; the module is inserted only after the hook
\* returned nil.
C20_RegisterOrder ==
    [][\A m \in Modules :
        Called("RegisterModule", m)' =>
            IF HasKey(MapGet(registeredModulesById, GenericId(m)), SpecificId(m))
            THEN /\ call'.hooks = <<>>
                 /\ call'.err = ColisionError(GenericId(m), SpecificId(m))
            ELSE /\ Len(call'.hooks) = 1
                 /\ call'.hooks[1].hook = "Register"
                 /\ call'.hooks[1].module = m
                 /\ ~call'.hooks[1].held
                 /\ InByType(m) = {} /\ InById(m) = {}
                 /\ (InByType(m)' # {} \/ InById(m)' # {})
                        => call'.hooks[1].ret = NilError
    ]_vars

\* C20 witness: a RegisterModule call found no collision, ran the hook once
\* while no index held the module, and then inserted it into both indices,
\* next to a module registered before.
C20_Witness ==
    /\ call.op = "RegisterModule" /\ call.err = NilError
    /\ Len(call.hooks) = 1 /\ ~call.hooks[1].held
    /\ InByType(call.module) # {} /\ InById(call.module) # {}
    /\ RegisteredModules # {call.module}

\* C21: a successful UnregisterModule(M) removes M alone: every other
\* registered module M2 is still what GetModuleById returns for its ids and
\* still sits at its place in GetModulesByType of its type, also when it shares
\* M's type and genericId bucket.
C21_UnregisterFrame ==
    [][\A m, m2 \in Modules :
        (/\ Called("UnregisterModule", m)' /\ call'.err = NilError
         /\ m2 # m
         /\ InByType(m2) # {} /\ InById(m2) # {})
        => /\ GetModuleById(GenericId(m2), SpecificId(m2))' = m2
           /\ ModuleGet(MapGet(GetModulesByType(Type(m2))', GenericId(m2)),
                        SpecificId(m2)) = m2
           /\ InByType(m2)' = InByType(m2)
           /\ InById(m2)' = InById(m2)
    ]_vars

\* C21 witness: a module was unregistered while a module of the same type and
\* genericId and a module of the other type and genericId stay registered.
C21_Witness ==
    /\ call.op = "UnregisterModule" /\ call.err = NilError
    /\ call.module \notin RegisteredModules
    /\ \E m2 \in RegisteredModules :
        /\ Type(m2) = Type(call.module) /\ GenericId(m2) = GenericId(call.module)
        /\ GetModuleById(GenericId(m2), SpecificId(m2)) = m2
    /\ \E m3 \in RegisteredModules :
        Type(m3) # Type(call.module) /\ GenericId(m3) # GenericId(call.module)

\* the sum of count(x) over the strings xs
RECURSIVE SumCountByType(_)
SumCountByType(ts) ==
    IF ts = {} THEN 0
    ELSE LET t == CHOOSE x \in ts : TRUE
         IN  GetModuleCountByType(t) + SumCountByType(ts \ {t})

RECURSIVE SumCountByGenericId(_)
SumCountByGenericId(gs) ==
    IF gs = {} THEN 0
    ELSE LET g == CHOOSE x \in gs : TRUE
         IN  GetModuleCountByGenericId(g) + SumCountByGenericId(gs \ {g})

\* C22: in every reachable state GetAllModulesCount() is the number of
\* registered modules, the sum of GetModuleCountByType over the types and the
\* sum of GetModuleCountByGenericId over the genericIds.
C22_CountsAgree ==
    /\ GetAllModulesCount = Cardinality(RegisteredModules)
    /\ GetAllModulesCount = SumCountByType(Types)
    /\ GetAllModulesCount = SumCountByGenericId(GenericIds)
    /\ \A t \in Types :
        GetModuleCountByType(t) =
            Cardinality({m \in RegisteredModules : Type(m) = t})
    /\ \A g \in GenericIds :
        GetModuleCountByGenericId(g) =
            Cardinality({m \in RegisteredModules : GenericId(m) = g})

\* C22 witness: three modules are registered, two of them in one bucket of a
\* type and genericId, the third of the other type and the other genericId.
C22_Witness ==
    /\ call.op = "RegisterModule" /\ call.err = NilError
    /\ GetAllModulesCount = 3
    /\ \E t \in Types, g \in GenericIds :
        /\ Len_(MapGet(GetModulesByType(t), g)) = 2
        /\ GetModuleCountByType(t) = 2
        /\ GetModuleCountByGenericId(g) = 2
    /\ \A t \in Types : GetModuleCountByType(t) >= 1
    /\ \A g \in GenericIds : GetModuleCountByGenericId(g) >= 1

\* C23: the same sequence of RegisterModule and UnregisterModule calls, on
\* modules of stable identity, run on the single-id registry with id = i and on
\* the general registry with genericId = i and the empty specificId: every call
\* succeeds on both or fails on both, with the same kind of error, and
\* afterwards GetModuleById(i) of the one is GetModuleById(i, "") of the other
\* for every i.
C23_DegenerateCase ==
    /\ call.op \in {"RegisterModule", "UnregisterModule"} =>
        /\ singleCall.op = call.op
        /\ singleCall.module = call.module
        /\ singleCall.err = NilError <=> call.err = NilError
        /\ singleCall.err = NotFoundError <=> call.err = NotFoundError
        /\ singleCall.err \in HookErrors <=> call.err \in HookErrors
        /\ singleCall.err \in HookErrors => singleCall.err = call.err
        /\ singleCall.err = SingleColisionError(Id(call.module))
            <=> call.err = ColisionError(GenericId(call.module), "")
    /\ \A i \in GenericIds : SingleGetModuleById(i) = GetModuleById(i, "")

\* C23 witness: both registries rejected, as a collision, the registration of
\* a module whose id is held by a module of the other type, while a module of
\* the other id is in neither registry.
C23_Witness ==
    /\ call.op = "RegisterModule"
    /\ call.err = ColisionError(GenericId(call.module), "")
    /\ singleCall.err = SingleColisionError(Id(call.module))
    /\ SingleGetModuleById(Id(call.module)) # NilModule
    /\ Type(SingleGetModuleById(Id(call.module))) # Type(call.module)
    /\ \E m \in Modules :
        /\ Id(m) # Id(call.module)
        /\ m \notin RegisteredModules
        /\ SingleGetModuleById(Id(m)) = NilModule
====
